---- MODULE Spec2Model ----
(***************************************************************************)
(* Leaflet.VectorTileLayer: the tile-to-graphics pipeline.                 *)
(*                                                                         *)
(* The layer (VectorTileLayer.js) keeps a registry m_featureTiles of tile  *)
(* sessions (FeatureTile.js), resolves a style for every decoded feature   *)
(* and has the feature-layer builder (FeatureLayer.js, the revision that   *)
(* exports featureLayerBase and featureCircleLayer) build one feature      *)
(* graphics per accepted feature.  Every handler runs to completion on the *)
(* single JavaScript thread; the only suspension point is the tile fetch.  *)
(***************************************************************************)
EXTENDS Integers, Sequences, FiniteSets, TLC

(***************************************************************************)
(* Bounds of the model.                                                    *)
(***************************************************************************)
\* number of createTile calls in one behaviour
MaxSessions == 2
\* largest zoom clampZoom is applied to
MaxZoomArg == 5

(***************************************************************************)
(* JavaScript values that flow through style resolution.  A value is a     *)
(* style object, an array of style objects, a function, the legacy         *)
(* resolver closure, or undefined.  A style object maps every recognised   *)
(* key to a value or to Absent (the key is not an own property).           *)
(***************************************************************************)
Absent == "absent"
Keys == {"color", "weight", "fill", "radius", "icon", "opacity",
         "interactive", "interactionWeight"}

EmptyStyle == [k \in Keys |-> Absent]
StyleRed == [EmptyStyle EXCEPT !["color"] = "red"]
StyleW5 == [EmptyStyle EXCEPT !["weight"] = "5"]

Undef == [kind |-> "undef", obj |-> EmptyStyle, arr |-> <<>>, fn |-> ""]
Obj(s) == [kind |-> "obj", obj |-> s, arr |-> <<>>, fn |-> ""]
Arr(q) == [kind |-> "arr", obj |-> EmptyStyle, arr |-> q, fn |-> ""]
Fn(n) == [kind |-> "fn", obj |-> EmptyStyle, arr |-> <<>>, fn |-> n]
Legacy == [kind |-> "legacy", obj |-> EmptyStyle, arr |-> <<>>, fn |-> ""]

\* JavaScript truthiness: undefined is falsy; objects, arrays (also the
\* empty one) and functions are truthy.
Truthy(v) == v.kind # "undef"

\* Leaflet's Util.extend({}, a, b) restricted to the recognised keys.
Extend(a, b) == [k \in Keys |-> IF b[k] # Absent THEN b[k] ELSE a[k]]

\* The recognised own enumerable properties of a value handed to extend():
\* an array has index keys only, a function and undefined have none.
OwnStyle(v) == IF v.kind = "obj" THEN v.obj ELSE EmptyStyle

(***************************************************************************)
(* Leaflet's class default options, restricted to the recognised keys.     *)
(***************************************************************************)
PathOptions ==
    [EmptyStyle EXCEPT !["color"] = "#3388ff", !["weight"] = "3",
                       !["fill"] = "false", !["opacity"] = "1",
                       !["interactive"] = "true"]
PolygonOptions == [PathOptions EXCEPT !["fill"] = "true"]
CircleMarkerOptions ==
    [PathOptions EXCEPT !["fill"] = "true", !["radius"] = "10"]

(***************************************************************************)
(* Decoded vector tiles.  feature.type is the vector-tile geometry type    *)
(* (0 Unknown, 1 Point, 2 LineString, 3 Polygon); fid is what the          *)
(* configured getFeatureId extracts; bbox is <<x0, y0, x1, y1>>.           *)
(***************************************************************************)
VectorTileFeatureTypes == <<"Unknown", "Point", "LineString", "Polygon">>
TypeName(t) == VectorTileFeatureTypes[t + 1]

Feature(id, t, bb) == [fid |-> id, type |-> t, bbox |-> bb]
FLine == Feature(1, 2, <<0, 0, 2, 1>>)
FPoint == Feature(2, 1, <<3, 3, 3, 3>>)
FPoly == Feature(3, 3, <<1, 1, 4, 2>>)
FUnknown == Feature(4, 0, <<0, 0, 0, 0>>)
FLineC == Feature(5, 2, <<2, 0, 4, 4>>)

Coord(x, y, z) == [x |-> x, y |-> y, z |-> z]
Coords == {Coord(0, 0, 0), Coord(1, 0, 1)}

\* a decoded layer: its name, its extent and its features by index
VTLayer(n, fs) == [name |-> n, extent |-> 4, features |-> fs]
EmptyTile == <<>>

\* What the server holds for a tile coordinate, as decoded by
\* new VectorTile(new Pbf(buffer)): the layers in decode order.
TileContent(c) ==
    IF c.z = 0
    THEN <<VTLayer("a", <<FLine, FPoint>>), VTLayer("b", <<FPoly>>),
           VTLayer("c", <<FLineC>>)>>
    ELSE <<VTLayer("a", <<FLine>>), VTLayer("b", <<FUnknown, FPoly>>)>>

LayerNames == {"a", "b", "c"}
Zooms == {0, 1}
AllFeatures == {FLine, FPoint, FPoly, FUnknown, FLineC}
FeatureIds == {1, 2, 3, 4, 5}

(***************************************************************************)
(* Functions a client can configure.  Each is identified by a name and     *)
(* defined by what it returns.                                             *)
(***************************************************************************)
\* options.style as a function: style(feature, layerName, zoom)
StyleFns == {"byLayer", "emptyArray", "noStyle"}
CallStyleFn(n, feature, layerName, zoom) ==
    CASE n = "byLayer" ->
            IF layerName = "a" THEN Obj(StyleRed) ELSE Obj(StyleW5)
      [] n = "emptyArray" -> Arr(<<>>)
      [] n = "noStyle" -> Undef

\* a vectorTileLayerStyles entry or a per-id override as a function:
\* layerStyle(feature.properties, zoom, feature.type)
LayerStyleFns == {"byType", "noStyles"}
CallLayerStyleFn(n, feature, zoom) ==
    CASE n = "byType" ->
            IF feature.type = 2 THEN Obj(StyleRed)
            ELSE Arr(<<StyleW5, StyleRed>>)
      [] n = "noStyles" -> Arr(<<>>)

\* options.filter: filter(feature, layerName, zoom); "none" is undefined
Filters == {"none", "notLayerB", "notId1", "zoom0"}
CallFilter(n, feature, layerName, zoom) ==
    CASE n = "notLayerB" -> layerName # "b"
      [] n = "notId1" -> feature.fid # 1
      [] n = "zoom0" -> zoom = 0

\* options.getFeatureId(feature)
GetFeatureId(feature) == feature.fid

\* options.layerOrder: layerOrder(layerNames, zoom); "none" is undefined
RECURSIVE Reverse(_)
Reverse(q) == IF q = <<>> THEN <<>> ELSE Append(Reverse(Tail(q)), Head(q))
CallLayerOrder(n, layerNames, zoom) ==
    CASE n = "reverse" -> Reverse(layerNames)

(***************************************************************************)
(* The layer's options.  vectorTileLayerStyles and layers are undefined    *)
(* when their set flag is FALSE.                                           *)
(***************************************************************************)
NoTable == [n \in LayerNames |-> Undef]
Options(style, hasTable, table, getId, filter, hasLayers, layers, order) ==
    [style |-> style,
     vectorTileLayerStyles |-> [set |-> hasTable, table |-> table],
     getFeatureId |-> getId,
     filter |-> filter,
     layers |-> [set |-> hasLayers, names |-> layers],
     layerOrder |-> order]

\* a constructor that installs the legacy resolver whenever the table is
\* given
ConstructLegacyFirst(o) ==
    IF o.vectorTileLayerStyles.set
    THEN [o EXCEPT !.style = Legacy]
    ELSE o

\* vectorTileLayer(url, options), the part that installs the legacy
\* resolver: options.vectorTileLayerStyles && !options.style
Construct(o) ==
    IF o.vectorTileLayerStyles.set /\ ~Truthy(o.style)
    THEN [o EXCEPT !.style = Legacy]
    ELSE o

\* a legacy resolver that never looks at the override table
LegacySourceNoOverride(o, fs, feature, layerName) ==
    o.vectorTileLayerStyles.table[layerName]

\* legacyStyle(feature, layerName, zoom) with the override table fs: the
\* layer style it starts from
LegacySource(o, fs, feature, layerName) ==
    IF o.getFeatureId /\ Truthy(fs[GetFeatureId(feature)])
    THEN fs[GetFeatureId(feature)]
    ELSE o.vectorTileLayerStyles.table[layerName]

\* a legacy resolver that passes an empty array on instead of skipping
LegacyStyleNoSkip(o, fs, feature, layerName, zoom) ==
    LET src == LegacySource(o, fs, feature, layerName)
        layerStyle == IF src.kind = "fn"
                      THEN CallLayerStyleFn(src.fn, feature, zoom)
                      ELSE src
    IN  IF layerStyle.kind = "arr" /\ Len(layerStyle.arr) # 0
        THEN Obj(layerStyle.arr[1])
        ELSE layerStyle

LegacyStyle(o, fs, feature, layerName, zoom) ==
    LET src == LegacySource(o, fs, feature, layerName)
        layerStyle == IF src.kind = "fn"
                      THEN CallLayerStyleFn(src.fn, feature, zoom)
                      ELSE src
    IN  IF layerStyle.kind = "arr"
        THEN IF Len(layerStyle.arr) = 0 THEN Undef
             ELSE Obj(layerStyle.arr[1])
        ELSE layerStyle

\* a getFeatureStyle that does not consult the filter
GetFeatureStyleNoFilter(o, fs, feature, layerName, zoom) ==
    CASE o.style.kind = "fn" ->
            CallStyleFn(o.style.fn, feature, layerName, zoom)
      [] o.style.kind = "legacy" ->
            LegacyStyle(o, fs, feature, layerName, zoom)
      [] OTHER -> o.style

\* self.getFeatureStyle(feature, layerName, zoom)
GetFeatureStyle(o, fs, feature, layerName, zoom) ==
    IF o.filter # "none" /\ ~CallFilter(o.filter, feature, layerName, zoom)
    THEN Undef
    ELSE CASE o.style.kind = "fn" ->
                 CallStyleFn(o.style.fn, feature, layerName, zoom)
           [] o.style.kind = "legacy" ->
                 LegacyStyle(o, fs, feature, layerName, zoom)
           [] OTHER -> o.style

\* a getOrderedLayers that forgets the allow-list
GetOrderedLayersNoAllowList(o, layerNames, zoom) ==
    IF o.layerOrder # "none"
    THEN CallLayerOrder(o.layerOrder, layerNames, zoom)
    ELSE layerNames

\* a getOrderedLayers in which the allow-list wins over layerOrder
GetOrderedLayersAllowListFirst(o, layerNames, zoom) ==
    IF o.layers.set THEN o.layers.names
    ELSE IF o.layerOrder # "none"
    THEN CallLayerOrder(o.layerOrder, layerNames, zoom)
    ELSE layerNames

\* self.getOrderedLayers(layerNames, zoom)
GetOrderedLayers(o, layerNames, zoom) ==
    LET names == IF o.layers.set THEN o.layers.names ELSE layerNames
    IN  IF o.layerOrder # "none"
        THEN CallLayerOrder(o.layerOrder, names, zoom)
        ELSE names

\* options.minDetailZoom / options.maxDetailZoom: undefined or a zoom
NoZoom == [set |-> FALSE, value |-> 0]
Zoom(z) == [set |-> TRUE, value |-> z]
DetailZooms == {NoZoom} \cup {Zoom(z) : z \in 0..(MaxZoomArg - 2)}
ZoomArgs == (0 - 1)..MaxZoomArg

\* a clampZoom that returns the opposite bound
ClampZoomSwapped(o, zoom) ==
    IF o.minDetailZoom.set /\ zoom < o.minDetailZoom.value
    THEN IF o.maxDetailZoom.set THEN o.maxDetailZoom.value
         ELSE o.minDetailZoom.value
    ELSE IF o.maxDetailZoom.set /\ o.maxDetailZoom.value < zoom
    THEN IF o.minDetailZoom.set THEN o.minDetailZoom.value
         ELSE o.maxDetailZoom.value
    ELSE zoom

\* a clampZoom that forgets maxDetailZoom
ClampZoomNoMax(o, zoom) ==
    IF o.minDetailZoom.set /\ zoom < o.minDetailZoom.value
    THEN o.minDetailZoom.value
    ELSE zoom

\* clampZoom(zoom) under the detail-zoom options o
ClampZoom(o, zoom) ==
    IF o.minDetailZoom.set /\ zoom < o.minDetailZoom.value
    THEN o.minDetailZoom.value
    ELSE IF o.maxDetailZoom.set /\ o.maxDetailZoom.value < zoom
    THEN o.maxDetailZoom.value
    ELSE zoom

(***************************************************************************)
(* The feature-layer builder.  A feature layer keeps the options it was    *)
(* built with (already merged with its class defaults) and the style last  *)
(* applied to its graphics.                                                *)
(***************************************************************************)
FeatureLayer(feature, layerName, pxPerExtent, kind, options) ==
    [feature |-> feature, layerName |-> layerName,
     pxPerExtent |-> pxPerExtent, kind |-> kind,
     options |-> options, style |-> options]

\* featureLayer.setStyle(style) of the circle, path and icon layers:
\* style = extend({}, options, style)
FeatureLayerSetStyle(fl, v) ==
    [fl EXCEPT !.style = Extend(fl.options, OwnStyle(v))]

\* the class defaults featureCircleLayer and featurePathLayer merge the
\* build options over; featureIconLayer merges none
ClassDefaults(kind, feature) ==
    CASE kind = "circle" -> CircleMarkerOptions
      [] kind = "path" -> IF TypeName(feature.type) = "Polygon"
                          THEN PolygonOptions ELSE PathOptions
      [] kind = "icon" -> EmptyStyle

\* L.icon(...) values of a style's icon key, named by the options they
\* carry; iconSize and iconAnchor are optional for an L.Icon
IconSized == "icon{iconUrl,iconSize}"
IconBare == "icon{iconUrl}"
IconHasSize(icon) == icon = IconSized

\* applyImageStyle(image, style) raises a TypeError when it indexes the
\* undefined iconSize of style.icon.options
ApplyImageStyleRaises(style) ==
    style["icon"] # Absent /\ ~IconHasSize(style["icon"])

\* the builder defaultFeatureLayer dispatches to; "throw" is the
\* Error("Unknown feature type")
BuilderKind(feature, v) ==
    CASE TypeName(feature.type) = "Point" ->
            IF OwnStyle(v)["icon"] # Absent THEN "icon" ELSE "circle"
      [] TypeName(feature.type) \in {"Polygon", "LineString"} -> "path"
      [] OTHER -> "throw"

\* defaultFeatureLayer(feature, layerName, pxPerExtent, options) raises:
\* the Error of the default branch, or the TypeError of the setStyle({})
\* that applyOptions ends the icon builder with
BuilderRaises(feature, v) ==
    \/ BuilderKind(feature, v) = "throw"
    \/ /\ BuilderKind(feature, v) = "icon"
       /\ ApplyImageStyleRaises(Extend(ClassDefaults("icon", feature),
                                       OwnStyle(v)))

\* featureLayer.setStyle(style) raises: the TypeError of applyImageStyle in
\* the icon layer; extend() skips an undefined style, so the circle and
\* path layers raise for no style
FeatureLayerSetStyleRaises(fl, v) ==
    /\ fl.kind = "icon"
    /\ ApplyImageStyleRaises(Extend(fl.options, OwnStyle(v)))

\* defaultFeatureLayer(feature, layerName, pxPerExtent, options), for a
\* feature it does not throw on; applyOptions ends in setStyle({})
DefaultFeatureLayer(feature, layerName, pxPerExtent, v) ==
    LET kind == BuilderKind(feature, v)
    IN  FeatureLayer(feature, layerName, pxPerExtent, kind,
                     Extend(ClassDefaults(kind, feature), OwnStyle(v)))

(***************************************************************************)
(* Configurations the layer is constructed with, and the inputs of the     *)
(* style calls.                                                            *)
(***************************************************************************)
TableAB(a, b) == [n \in LayerNames |-> IF n = "a" THEN a
                                       ELSE IF n = "b" THEN b ELSE Undef]
TableABC(a, b, c) == [n \in LayerNames |-> IF n = "a" THEN a
                                           ELSE IF n = "b" THEN b ELSE c]
Configs ==
    { Options(Undef, FALSE, NoTable, FALSE, "none", FALSE, <<>>, "none"),
      Options(Obj(StyleRed), TRUE, TableAB(Obj(StyleW5), Arr(<<>>)), TRUE,
              "none", FALSE, <<>>, "reverse"),
      Options(Fn("byLayer"), FALSE, NoTable, FALSE, "notId1",
              TRUE, <<"c", "a">>, "none"),
      Options(Arr(<<>>), FALSE, NoTable, FALSE, "notLayerB",
              FALSE, <<>>, "none"),
      Options(Fn("emptyArray"), FALSE, NoTable, FALSE, "none",
              TRUE, <<"c", "a">>, "reverse"),
      Options(Undef, TRUE,
              TableABC(Fn("byType"), Arr(<<>>), Fn("noStyles")), TRUE,
              "zoom0", FALSE, <<>>, "none") }

SetStyleInputs == {Obj(StyleW5)}
OverrideIds == {1}
OverrideInputs == {Obj(StyleW5)}

(***************************************************************************)
(* State.                                                                  *)
(***************************************************************************)
VARIABLE options         \* the layer's options; setStyle assigns options.style
VARIABLE m_featureStyle  \* per-feature-id overrides, Undef where none
VARIABLE tiles           \* every featureTile object created so far
VARIABLE m_featureTiles  \* the registry in key insertion order: [id, tile]
VARIABLE targets         \* feature layers that are interactive targets
VARIABLE eventParents    \* feature layers with the layer as event parent
VARIABLE returned        \* the bounds the last call into the layer returned
VARIABLE zoomCall        \* a call of clampZoom: its arguments and its result
VARIABLE buildCall       \* a call of the default builder and its result
VARIABLE pathCall        \* a thickened path layer: its build and restyles

vars == <<options, m_featureStyle, tiles, m_featureTiles, targets,
          eventParents, returned, zoomCall, buildCall, pathCall>>

\* the calls of the pure functions, which no handler of the layer changes
pureCalls == <<zoomCall, buildCall, pathCall>>

tileId(coords) == <<coords.x, coords.y, coords.z>>

\* the index in m_featureTiles of the entry with key id, 0 if there is none
RegistryIndex(reg, id) ==
    IF \E k \in 1..Len(reg) : reg[k].id = id
    THEN CHOOSE k \in 1..Len(reg) : reg[k].id = id
    ELSE 0

Registered(reg) == {reg[k].tile : k \in 1..Len(reg)}

\* a feature layer is named by its tile and its index in the tile's m_layers
Ref(s, i) == [tile |-> s, idx |-> i]
Members(ts, s) == {Ref(s, i) : i \in 1..Len(ts[s].m_layers)}

\* the undefined bounds of getBounds; a call that returns the layer, a DOM
\* element or nothing returns no bounds either
NoBounds == [defined |-> FALSE, s |-> 0, w |-> 0, n |-> 0, e |-> 0]

\* no call of clampZoom, and no call of the default builder, under way
NoZoomCall ==
    [minDetailZoom |-> NoZoom, maxDetailZoom |-> NoZoom, zoom |-> 0,
     phase |-> "idle", out |-> 0, again |-> 0]
NoLayer == FeatureLayer(FUnknown, "", [x |-> 0, y |-> 0], "none", EmptyStyle)
NoBuildCall ==
    [feature |-> FUnknown, style |-> Undef, phase |-> "idle",
     layer |-> NoLayer]

\* no thickened path layer under construction
NoPath == [d |-> <<>>, style |-> EmptyStyle]
NoPathLayer ==
    [feature |-> FUnknown, options |-> EmptyStyle, root |-> "none",
     visiblePath |-> NoPath, interactionPath |-> NoPath]
NoPathCall ==
    [feature |-> FUnknown, style |-> Undef, phase |-> "idle",
     layer |-> NoPathLayer, restyle |-> Undef]

\* the layer right after vectorTileLayer(url, options) returned
InitLayer ==
    /\ m_featureStyle = [i \in FeatureIds |-> Undef]
    /\ tiles = <<>>
    /\ m_featureTiles = <<>>
    /\ targets = {}
    /\ eventParents = {}
    /\ returned = NoBounds

Init ==
    /\ options \in {Construct(o) : o \in Configs}
    /\ InitLayer
    /\ zoomCall = NoZoomCall
    /\ buildCall = NoBuildCall
    /\ pathCall = NoPathCall

(***************************************************************************)
(* FeatureTile.js                                                          *)
(***************************************************************************)
\* Leaflet points
Point(x, y) == [x |-> x, y |-> y]
DivideBy(p, d) == Point(p.x \div d, p.y \div d)
ScaleBy(p, q) == Point(p.x * q.x, p.y * q.y)
Add(p, q) == Point(p.x + q.x, p.y + q.y)

\* layer.getTileSize() as sampled by featureTile
m_tileSize == Point(8, 8)

\* featureTile(coords, layer): a session with no members.  fetch is the
\* state of the load promise createTile attaches to it ("pending", or what
\* it settled with) and done the calls of createTile's done made so far.
FeatureTileNew(coords) ==
    [coords |-> coords, m_layers |-> <<>>, fetch |-> "pending",
     done |-> <<>>]

\* an addFeature that resolves the style without the overrides registered
\* since the layer was constructed
AddFeatureWithoutOverrides(acc, feature, layerName, pxPerExtent, o, fs, zoom) ==
    LET featureStyle == GetFeatureStyle(o, [i \in FeatureIds |-> Undef],
                                        feature, layerName, zoom)
    IN  IF ~Truthy(featureStyle)
        THEN [m_layers |-> acc, thrown |-> FALSE]
        ELSE IF BuilderRaises(feature, featureStyle)
        THEN [m_layers |-> acc, thrown |-> TRUE]
        ELSE [m_layers |->
                  Append(acc, DefaultFeatureLayer(feature, layerName,
                                                  pxPerExtent, featureStyle)),
              thrown |-> FALSE]

\* addFeature(feature, layerName, pxPerExtent) on the members built so far;
\* thrown when featureToLayer raised
AddFeature(acc, feature, layerName, pxPerExtent, o, fs, zoom) ==
    LET featureStyle == GetFeatureStyle(o, fs, feature, layerName, zoom)
    IN  IF ~Truthy(featureStyle)
        THEN [m_layers |-> acc, thrown |-> FALSE]
        ELSE IF BuilderRaises(feature, featureStyle)
        THEN [m_layers |-> acc, thrown |-> TRUE]
        ELSE [m_layers |->
                  Append(acc, DefaultFeatureLayer(feature, layerName,
                                                  pxPerExtent, featureStyle)),
              thrown |-> FALSE]

\* an addVectorTile that walks the features of a layer from the last index
\* down to the first
RECURSIVE TileItemsDescending(_, _)
TileItemsDescending(names, vt) ==
    IF names = <<>> THEN <<>>
    ELSE LET found == SelectSeq(vt, LAMBDA l : l.name = Head(names))
             here == IF found = <<>> THEN <<>>
                     ELSE [i \in 1..Len(found[1].features) |->
                              [feature |->
                                   found[1].features[
                                       Len(found[1].features) + 1 - i],
                               layerName |-> Head(names),
                               pxPerExtent |->
                                   DivideBy(m_tileSize, found[1].extent)]]
         IN  here \o TileItemsDescending(Tail(names), vt)

\* the (feature, layerName) pairs addVectorTile passes to addFeature: for
\* each ordered name the tile has a layer for, its features by index
RECURSIVE TileItems(_, _)
TileItems(names, vt) ==
    IF names = <<>> THEN <<>>
    ELSE LET found == SelectSeq(vt, LAMBDA l : l.name = Head(names))
             here == IF found = <<>> THEN <<>>
                     ELSE [i \in 1..Len(found[1].features) |->
                              [feature |-> found[1].features[i],
                               layerName |-> Head(names),
                               pxPerExtent |->
                                   DivideBy(m_tileSize, found[1].extent)]]
         IN  here \o TileItems(Tail(names), vt)

RECURSIVE AddFeatures(_, _, _, _, _)
AddFeatures(acc, items, o, fs, zoom) ==
    IF items = <<>> THEN [m_layers |-> acc, thrown |-> FALSE]
    ELSE LET r == AddFeature(acc, Head(items).feature,
                             Head(items).layerName,
                             Head(items).pxPerExtent, o, fs, zoom)
         IN  IF r.thrown THEN r
             ELSE AddFeatures(r.m_layers, Tail(items), o, fs, zoom)

\* an addVectorTile whose member list is one list shared by all sessions
\* (the list of the first session) instead of the session's own
AddVectorTileSharedList(tile, vt, o, fs) ==
    LET names == [i \in 1..Len(vt) |-> vt[i].name]
        ordered == GetOrderedLayers(o, names, tile.coords.z)
    IN  AddFeatures(tiles[1].m_layers, TileItems(ordered, vt), o, fs,
                    tile.coords.z)

\* tile.addVectorTile(vectorTile)
AddVectorTile(tile, vt, o, fs) ==
    LET names == [i \in 1..Len(vt) |-> vt[i].name]
        ordered == GetOrderedLayers(o, names, tile.coords.z)
    IN  AddFeatures(tile.m_layers, TileItems(ordered, vt), o, fs,
                    tile.coords.z)

(***************************************************************************)
(* VectorTileLayer.js                                                      *)
(***************************************************************************)
\* what the fetch of a tile can end with
Responses == {"ok", "status404", "status500", "networkError"}

\* load(url, options): the buffer, undefined for a 404, or a rejection
Load(response) ==
    CASE response = "ok" -> "buffer"
      [] response = "status404" -> "undefined"
      [] OTHER -> "rejected"

\* a decoder that delivers the tile's layers without a buffer
DecodeWithoutBuffer(coords, loaded) == TileContent(coords)

\* new VectorTile(new Pbf(buffer)): no layers when there is no buffer
Decode(coords, loaded) ==
    IF loaded = "buffer" THEN TileContent(coords) ELSE EmptyTile

\* m_featureTiles[id] = tile
RegistryPut(reg, id, s) ==
    IF RegistryIndex(reg, id) = 0
    THEN Append(reg, [id |-> id, tile |-> s])
    ELSE [reg EXCEPT ![RegistryIndex(reg, id)].tile = s]

\* delete m_featureTiles[id]
RegistryDelete(reg, id) == SelectSeq(reg, LAMBDA e : e.id # id)

\* self.createTile(coords, done).  The host grid asks for a tile only at a
\* coordinate it holds no tile for.
CreateTile(coords) ==
    /\ Len(tiles) < MaxSessions
    /\ RegistryIndex(m_featureTiles, tileId(coords)) = 0
    /\ tiles' = Append(tiles, FeatureTileNew(coords))
    /\ m_featureTiles' =
           RegistryPut(m_featureTiles, tileId(coords), Len(tiles) + 1)
    /\ returned' = NoBounds
    /\ UNCHANGED <<options, m_featureStyle, targets, eventParents,
                   pureCalls>>

\* the completion of createTile's load for session s when it fulfils:
\* tile.addVectorTile(...), where addFeature calls self.addFeatureLayer on
\* each new member, then done(null, tile) unless the build raised
FetchFulfilled(s, response) ==
    /\ tiles[s].fetch = "pending"
    /\ Load(response) # "rejected"
    /\ LET tile == tiles[s]
           r == AddVectorTile(tile, Decode(tile.coords, Load(response)),
                              options, m_featureStyle)
           added == {Ref(s, i) :
                        i \in (Len(tile.m_layers) + 1)..Len(r.m_layers)}
       IN  /\ tiles' = [tiles EXCEPT
                  ![s].m_layers = r.m_layers,
                  ![s].fetch = Load(response),
                  ![s].done = IF r.thrown THEN @ ELSE Append(@, "null")]
           /\ targets' = targets \cup added
           /\ eventParents' = eventParents \cup added
    /\ returned' = NoBounds
    /\ UNCHANGED <<options, m_featureStyle, m_featureTiles, pureCalls>>

\* the completion when load rejects: done(exc, tile)
FetchRejected(s, response) ==
    /\ tiles[s].fetch = "pending"
    /\ Load(response) = "rejected"
    /\ tiles' = [tiles EXCEPT ![s].fetch = Load(response),
                              ![s].done = Append(@, "error")]
    /\ returned' = NoBounds
    /\ UNCHANGED <<options, m_featureStyle, m_featureTiles, targets,
                   eventParents, pureCalls>>

\* a tileunload handler that forgets to call removeFeatureLayer
TileUnloadNoRemove(coords) ==
    /\ RegistryIndex(m_featureTiles, tileId(coords)) # 0
    /\ m_featureTiles' = RegistryDelete(m_featureTiles, tileId(coords))
    /\ returned' = NoBounds
    /\ UNCHANGED <<options, m_featureStyle, tiles, targets, eventParents,
                   pureCalls>>

\* the tileunload handler: removeFeatureLayer on every member of the
\* registered session, then delete the registry entry
TileUnload(coords) ==
    LET k == RegistryIndex(m_featureTiles, tileId(coords))
    IN  /\ k # 0
        /\ targets' = targets \ Members(tiles, m_featureTiles[k].tile)
        /\ eventParents' =
               eventParents \ Members(tiles, m_featureTiles[k].tile)
        /\ m_featureTiles' = RegistryDelete(m_featureTiles, tileId(coords))
        /\ returned' = NoBounds
        /\ UNCHANGED <<options, m_featureStyle, tiles, pureCalls>>

\* eachFeatureLayer(func): the feature layers func is called with, tile by
\* tile in Object.keys order, member by member
RECURSIVE EachFeatureLayer(_, _)
EachFeatureLayer(reg, ts) ==
    IF reg = <<>> THEN <<>>
    ELSE [i \in 1..Len(ts[Head(reg).tile].m_layers) |->
             Ref(Head(reg).tile, i)]
         \o EachFeatureLayer(Tail(reg), ts)

\* a restyle that builds the feature graphics anew from the resolved style
RestyleByRebuild(fl, coords, o, fs) ==
    DefaultFeatureLayer(fl.feature, fl.layerName, fl.pxPerExtent,
        GetFeatureStyle(o, fs, fl.feature, fl.layerName, coords.z))

\* a restyle that leaves a feature layer alone when nothing resolves for it
RestyleSkipsUnstyled(fl, coords, o, fs) ==
    IF Truthy(GetFeatureStyle(o, fs, fl.feature, fl.layerName, coords.z))
    THEN FeatureLayerSetStyle(fl,
             GetFeatureStyle(o, fs, fl.feature, fl.layerName, coords.z))
    ELSE fl

\* the callback of setStyle on one feature layer of a tile
Restyle(fl, coords, o, fs) ==
    FeatureLayerSetStyle(fl,
        GetFeatureStyle(o, fs, fl.feature, fl.layerName, coords.z))

\* self.setStyle(style) with the override table fs in force
SetStyleWith(style, fs) ==
    LET o == [options EXCEPT !.style = style]
    IN  /\ options' = o
        /\ tiles' = [s \in 1..Len(tiles) |->
               IF s \in Registered(m_featureTiles)
               THEN [tiles[s] EXCEPT !.m_layers =
                        [i \in 1..Len(tiles[s].m_layers) |->
                            Restyle(tiles[s].m_layers[i], tiles[s].coords,
                                    o, fs)]]
               ELSE tiles[s]]
        /\ UNCHANGED <<m_featureTiles, targets, eventParents, pureCalls>>

SetStyle(style) ==
    /\ SetStyleWith(style, m_featureStyle)
    /\ returned' = NoBounds
    /\ UNCHANGED m_featureStyle

\* self.setFeatureStyle(id, style)
SetFeatureStyle(id, style) ==
    /\ m_featureStyle' = [m_featureStyle EXCEPT ![id] = style]
    /\ SetStyleWith(options.style, m_featureStyle')
    /\ returned' = NoBounds

\* self.resetFeatureStyle(id)
ResetFeatureStyle(id) ==
    /\ m_featureStyle' = [m_featureStyle EXCEPT ![id] = Undef]
    /\ SetStyleWith(options.style, m_featureStyle')
    /\ returned' = NoBounds

\* featureLayer.bbox(): the feature's bbox corners scaled by pxPerExtent
Bbox(fl) ==
    LET a == ScaleBy(Point(fl.feature.bbox[1], fl.feature.bbox[2]),
                     fl.pxPerExtent)
        b == ScaleBy(Point(fl.feature.bbox[3], fl.feature.bbox[4]),
                     fl.pxPerExtent)
    IN  [min |-> Point(IF a.x < b.x THEN a.x ELSE b.x,
                       IF a.y < b.y THEN a.y ELSE b.y),
         max |-> Point(IF a.x < b.x THEN b.x ELSE a.x,
                       IF a.y < b.y THEN b.y ELSE a.y)]

\* feature.loadGeometry(): the rings of the feature in extent units; the
\* features of the tiles are a single ring from one corner of their bbox
\* to the other
LoadGeometry(feature) ==
    <<<<Point(feature.bbox[1], feature.bbox[2]),
        Point(feature.bbox[3], feature.bbox[4])>>>>

\* SVG.pointsToPath(rings, closed): the path data, an M/L command list per
\* ring, ended by z when closed
PointsToPath(rings, closed) ==
    [r \in 1..Len(rings) |->
        [cmd |-> [i \in 1..Len(rings[r]) |->
                     [op |-> IF i = 1 THEN "M" ELSE "L",
                      x |-> rings[r][i].x, y |-> rings[r][i].y]],
         z |-> closed]]

\* self.scalePoint(p)
ScalePoint(fl, p) == ScaleBy(p, fl.pxPerExtent)

\* the d attribute featurePathLayer sets: the scaled rings, closed for a
\* Polygon
CreatePath(fl) ==
    PointsToPath([r \in 1..Len(LoadGeometry(fl.feature)) |->
                     [i \in 1..Len(LoadGeometry(fl.feature)[r]) |->
                         ScalePoint(fl, LoadGeometry(fl.feature)[r][i])]],
                 TypeName(fl.feature.type) = "Polygon")

\* the SVG element tree a feature layer exposes as graphics: the tag of the
\* root and the path shapes in it, each with its d attribute and the style
\* applied to it.  featurePathLayer creates one path and styles it in
\* setStyle, whether or not the style is interactive.
Graphics(fl) ==
    CASE fl.kind = "path" ->
            [root |-> "path",
             paths |-> <<[d |-> CreatePath(fl), style |-> fl.style]>>]
      [] fl.kind = "circle" -> [root |-> "circle", paths |-> <<>>]
      [] OTHER -> [root |-> "image", paths |-> <<>>]

\* tile.global(p)
Global(coords, p) == Add(ScaleBy(Point(coords.x, coords.y), m_tileSize), p)

\* m_map.unproject(p, zoom) for the simple CRS: lat = -y / 2^zoom,
\* lng = x / 2^zoom, kept exact in units of 1 / 2^MaxZoom
MaxZoom == CHOOSE z \in Zooms : \A y \in Zooms : y <= z
RECURSIVE Pow2(_)
Pow2(n) == IF n = 0 THEN 1 ELSE 2 * Pow2(n - 1)
Unproject(p, zoom) ==
    [lat |-> (0 - p.y) * Pow2(MaxZoom - zoom),
     lng |-> p.x * Pow2(MaxZoom - zoom)]

Min(a, b) == IF a < b THEN a ELSE b
Max(a, b) == IF a < b THEN b ELSE a

\* latLngBounds(a, b)
LatLngBounds(a, b) ==
    [defined |-> TRUE,
     s |-> Min(a.lat, b.lat), w |-> Min(a.lng, b.lng),
     n |-> Max(a.lat, b.lat), e |-> Max(a.lng, b.lng)]

\* an extend that keeps the other bounds only
BoundsExtendReplace(b, other) ==
    [defined |-> TRUE, s |-> other.s, w |-> other.w, n |-> other.n,
     e |-> other.e]

\* bounds.extend(other)
BoundsExtend(b, other) ==
    [defined |-> TRUE,
     s |-> Min(b.s, other.s), w |-> Min(b.w, other.w),
     n |-> Max(b.n, other.n), e |-> Max(b.e, other.e)]

\* the callback of getBounds on one feature layer of a tile
TileBounds(fl, coords) ==
    LatLngBounds(Unproject(Global(coords, Bbox(fl).min), coords.z),
                 Unproject(Global(coords, Bbox(fl).max), coords.z))

RECURSIVE FoldBounds(_, _, _)
FoldBounds(acc, pass, ts) ==
    IF pass = <<>> THEN acc
    ELSE LET tile == ts[Head(pass).tile]
             tb == TileBounds(tile.m_layers[Head(pass).idx], tile.coords)
         IN  FoldBounds(IF ~acc.defined THEN tb ELSE BoundsExtend(acc, tb),
                        Tail(pass), ts)

\* self.getBounds()
GetBounds ==
    /\ returned' =
           (FoldBounds(NoBounds,
                               EachFeatureLayer(m_featureTiles, tiles),
                               tiles))
    /\ UNCHANGED <<options, m_featureStyle, tiles, m_featureTiles, targets,
                   eventParents, pureCalls>>

Next ==
    \/ \E c \in Coords : CreateTile(c)
    \/ \E s \in 1..Len(tiles), r \in Responses : FetchFulfilled(s, r)
    \/ \E s \in 1..Len(tiles), r \in Responses : FetchRejected(s, r)
    \/ \E c \in Coords : TileUnload(c)
    \/ \E st \in SetStyleInputs : SetStyle(st)
    \/ \E i \in OverrideIds, st \in OverrideInputs : SetFeatureStyle(i, st)
    \/ \E i \in OverrideIds : ResetFeatureStyle(i)
    \/ GetBounds

Spec == Init /\ [][Next]_vars

(***************************************************************************)
(* clampZoom as a function of its argument and of the detail-zoom options, *)
(* applied to a zoom and then to its own result.                           *)
(***************************************************************************)
DefaultConfig ==
    Options(Undef, FALSE, NoTable, FALSE, "none", FALSE, <<>>, "none")

InitZoom ==
    /\ options = Construct(DefaultConfig)
    /\ InitLayer
    /\ zoomCall \in {[minDetailZoom |-> lo, maxDetailZoom |-> hi, zoom |-> z,
                       phase |-> "args", out |-> 0, again |-> 0] :
                          lo \in DetailZooms, hi \in DetailZooms,
                          z \in ZoomArgs}
    /\ buildCall = NoBuildCall
    /\ pathCall = NoPathCall

\* clampZoom(zoom)
ClampZoomCall ==
    /\ zoomCall.phase = "args"
    /\ zoomCall' = [zoomCall EXCEPT !.phase = "returned",
                                    !.out = ClampZoom(zoomCall, zoomCall.zoom)]
    /\ UNCHANGED <<options, m_featureStyle, tiles, m_featureTiles, targets,
                   eventParents, returned, buildCall, pathCall>>

\* clampZoom(clampZoom(zoom)): the result is passed in again
ClampZoomAgain ==
    /\ zoomCall.phase = "returned"
    /\ zoomCall' = [zoomCall EXCEPT !.phase = "again",
                                    !.again = ClampZoom(zoomCall,
                                                        zoomCall.out)]
    /\ UNCHANGED <<options, m_featureStyle, tiles, m_featureTiles, targets,
                   eventParents, returned, buildCall, pathCall>>

NextZoom == ClampZoomCall \/ ClampZoomAgain

SpecZoom == InitZoom /\ [][NextZoom]_vars

(***************************************************************************)
(* The zoom of the tile URL and the tile size of the grid, as functions of *)
(* the display zoom and of the zoom options.                               *)
(***************************************************************************)
\* options.maxZoom (default) and the tile size of the base class
DefaultMaxZoom == 18
BaseTileSize == 256
ZoomOffsets == {0 - 1, 0, 1}

\* getZoomForUrl(zoom)
GetZoomForUrl(o, zoom) ==
    ClampZoom(o, (IF o.zoomReverse THEN o.maxZoom - zoom ELSE zoom)
                     + o.zoomOffset)

\* size.divideBy(m_map.getZoomScale(toZoom, fromZoom)).round() for a square
\* tile: the scale is 2^(toZoom - fromZoom)
DivideByZoomScale(size, toZoom, fromZoom) ==
    IF toZoom >= fromZoom
    THEN (2 * size + Pow2(toZoom - fromZoom))
             \div (2 * Pow2(toZoom - fromZoom))
    ELSE size * Pow2(fromZoom - toZoom)

\* self.getTileSize() while the grid shows _tileZoom = zoom
GetTileSize(o, zoom) ==
    DivideByZoomScale(BaseTileSize, ClampZoom(o, zoom), zoom)

InitUrl ==
    /\ options = Construct(DefaultConfig)
    /\ InitLayer
    /\ buildCall = NoBuildCall
    /\ pathCall = NoPathCall
    /\ zoomCall \in {[minDetailZoom |-> lo, maxDetailZoom |-> hi,
                       zoomOffset |-> off, zoomReverse |-> rev,
                       maxZoom |-> DefaultMaxZoom, zoom |-> z,
                       phase |-> "args", url |-> 0, size |-> 0] :
                          lo \in DetailZooms, hi \in DetailZooms,
                          off \in ZoomOffsets, rev \in BOOLEAN,
                          z \in ZoomArgs}

\* getTileUrl(coords) computes z: getZoomForUrl(coords.z)
GetTileUrlCall ==
    /\ zoomCall.phase = "args"
    /\ zoomCall' = [zoomCall EXCEPT
                       !.phase = "url",
                       !.url = GetZoomForUrl(zoomCall, zoomCall.zoom)]
    /\ UNCHANGED <<options, m_featureStyle, tiles, m_featureTiles, targets,
                   eventParents, returned, buildCall, pathCall>>

\* getTileSize() for the same tile zoom
GetTileSizeCall ==
    /\ zoomCall.phase = "url"
    /\ zoomCall' = [zoomCall EXCEPT
                       !.phase = "sized",
                       !.size = GetTileSize(zoomCall, zoomCall.zoom)]
    /\ UNCHANGED <<options, m_featureStyle, tiles, m_featureTiles, targets,
                   eventParents, returned, buildCall, pathCall>>

NextUrl == GetTileUrlCall \/ GetTileSizeCall

SpecUrl == InitUrl /\ [][NextUrl]_vars

(***************************************************************************)
(* The default builder as a function of the feature and of the resolved    *)
(* style object.                                                           *)
(***************************************************************************)
\* style objects that give or omit each recognised key
BuildStyles ==
    {st \in [Keys -> {Absent, "red", "5", "true", "false", "4", IconSized,
                      IconBare}] :
        /\ st["opacity"] = Absent
        /\ st["interactionWeight"] = Absent
        /\ st["interactive"] \in {Absent, "true", "false"}
        /\ st["color"] \in {Absent, "red"}
        /\ st["weight"] \in {Absent, "5"}
        /\ st["fill"] \in {Absent, "true"}
        /\ st["radius"] \in {Absent, "4"}
        /\ st["icon"] \in {Absent, IconSized, IconBare}}
BuildFeatures == {FLine, FPoint, FPoly}

InitBuild ==
    /\ options = Construct(DefaultConfig)
    /\ InitLayer
    /\ zoomCall = NoZoomCall
    /\ pathCall = NoPathCall
    /\ buildCall \in {[feature |-> f, style |-> Obj(st), phase |-> "args",
                        layer |-> NoLayer] :
                           f \in BuildFeatures, st \in BuildStyles}

\* layer.featureToLayer(feature, layerName, pxPerExtent, featureStyle)
\* returns
BuildReturns ==
    /\ buildCall.phase = "args"
    /\ ~BuilderRaises(buildCall.feature, buildCall.style)
    /\ buildCall' =
           [buildCall EXCEPT
               !.phase = "returned",
               !.layer = DefaultFeatureLayer(buildCall.feature, "a",
                                             [x |-> 2, y |-> 2],
                                             buildCall.style)]
    /\ UNCHANGED <<options, m_featureStyle, tiles, m_featureTiles, targets,
                   eventParents, returned, zoomCall, pathCall>>

\* layer.featureToLayer(...) raises
BuildRaises ==
    /\ buildCall.phase = "args"
    /\ BuilderRaises(buildCall.feature, buildCall.style)
    /\ buildCall' = [buildCall EXCEPT !.phase = "raised"]
    /\ UNCHANGED <<options, m_featureStyle, tiles, m_featureTiles, targets,
                   eventParents, returned, zoomCall, pathCall>>

NextBuild == BuildReturns \/ BuildRaises

SpecBuild == InitBuild /\ [][NextBuild]_vars

(***************************************************************************)
(* The layer under style calls that resolve to no style for features that  *)
(* are already built: setStyle with undefined or with a function returning *)
(* undefined, and resetFeatureStyle for a feature that only its override   *)
(* gave a style.                                                           *)
(***************************************************************************)
RestyleConfigs ==
    { Options(Obj(StyleRed), FALSE, NoTable, FALSE, "none", FALSE, <<>>,
              "none"),
      Options(Undef, TRUE, TableAB(Obj(StyleW5), Arr(<<>>)), TRUE,
              "none", FALSE, <<>>, "none") }
RestyleInputs == {Undef, Obj(StyleW5), Fn("noStyle")}
RestyleIds == {1, 5}
RestyleOverrides == {Obj(StyleRed)}

InitRestyle ==
    /\ options \in {Construct(o) : o \in RestyleConfigs}
    /\ InitLayer
    /\ zoomCall = NoZoomCall
    /\ buildCall = NoBuildCall
    /\ pathCall = NoPathCall

\* a step of setStyle, setFeatureStyle or resetFeatureStyle with these
\* inputs
RestyleCall ==
    \/ \E st \in RestyleInputs : SetStyle(st)
    \/ \E i \in RestyleIds, st \in RestyleOverrides : SetFeatureStyle(i, st)
    \/ \E i \in RestyleIds : ResetFeatureStyle(i)

NextRestyle ==
    \/ \E c \in Coords : CreateTile(c)
    \/ \E s \in 1..Len(tiles) : FetchFulfilled(s, "ok")
    \/ RestyleCall

SpecRestyle == InitRestyle /\ [][NextRestyle]_vars

(***************************************************************************)
(* The layer under every allow-list of up to MaxLayersLen names, repeated  *)
(* names included, with and without a layerOrder function.                 *)
(***************************************************************************)
MaxLayersLen == 2
LayerLists ==
    UNION {[1..n -> LayerNames] : n \in 0..MaxLayersLen}
OrderConfigs ==
    {Options(Obj(StyleRed), FALSE, NoTable, FALSE, "none", TRUE, q, order) :
        q \in LayerLists, order \in {"none", "reverse"}}

InitOrder ==
    /\ options \in {Construct(o) : o \in OrderConfigs}
    /\ InitLayer
    /\ zoomCall = NoZoomCall
    /\ buildCall = NoBuildCall
    /\ pathCall = NoPathCall

NextOrder ==
    \/ \E c \in Coords : CreateTile(c)
    \/ \E s \in 1..Len(tiles) : FetchFulfilled(s, "ok")

SpecOrder == InitOrder /\ [][NextOrder]_vars

(***************************************************************************)
(* The path layer that thickens interactive lines (the featurePathLayer    *)
(* of the builder revision with visiblePath and interactionPath), built    *)
(* from a style and then restyled.                                         *)
(***************************************************************************)
\* a style key as a JavaScript condition: absent and false are falsy
Holds(value) == value # Absent /\ value # "false"

\* self.applyPathStyle(path, style): style = extend({}, options, style)
ApplyPathStyle(path, opts, st) == [path EXCEPT !.style = Extend(opts, st)]

\* the style featurePathLayer gives the interaction path:
\* {opacity: 0.0, weight: options.interactionWeight || 10}
InteractionStyle(opts) ==
    [EmptyStyle EXCEPT
        !["opacity"] = "0.0",
        !["weight"] = IF Holds(opts["interactionWeight"])
                      THEN opts["interactionWeight"] ELSE "10"]

\* featurePathLayer(feature, layerName, pxPerExtent, options): the visible
\* path gets its d attribute and no style; a LineString with a truthy
\* options.interactive gets a group of the visible and the interaction path
FeaturePathLayer(feature, layerName, pxPerExtent, v) ==
    LET opts == Extend(CASE TypeName(feature.type) = "Polygon" ->
                               PolygonOptions
                         [] TypeName(feature.type) = "LineString" ->
                               PathOptions
                         [] OTHER -> CircleMarkerOptions,
                       OwnStyle(v))
        pathPoints ==
            CreatePath([feature |-> feature, pxPerExtent |-> pxPerExtent])
        thick == /\ TypeName(feature.type) = "LineString"
                 /\ Holds(opts["interactive"])
    IN  [feature |-> feature, options |-> opts,
         root |-> IF thick THEN "g" ELSE "path",
         visiblePath |-> [d |-> pathPoints, style |-> EmptyStyle],
         interactionPath |->
             IF thick
             THEN ApplyPathStyle([d |-> pathPoints, style |-> EmptyStyle],
                                 opts, InteractionStyle(opts))
             ELSE NoPath]

\* self.setStyle(style) of that layer: applyBasicStyle on graphics and
\* applyPathStyle on the visible path
FeaturePathLayerSetStyle(fl, v) ==
    [fl EXCEPT !.visiblePath = ApplyPathStyle(@, fl.options, OwnStyle(v))]

\* the styles the path layer is built from and restyled with
PathStyles ==
    {[EmptyStyle EXCEPT !["interactive"] = i, !["interactionWeight"] = w,
                        !["weight"] = t] :
        i \in {Absent, "true", "false"}, w \in {Absent, "20", "30"},
        t \in {Absent, "5"}}
PathFeatures == {FLine, FPoly}

InitPath ==
    /\ options = Construct(DefaultConfig)
    /\ InitLayer
    /\ zoomCall = NoZoomCall
    /\ buildCall = NoBuildCall
    /\ pathCall \in {[feature |-> f, style |-> Obj(st), phase |-> "args",
                       layer |-> NoPathLayer, restyle |-> Undef] :
                          f \in PathFeatures, st \in PathStyles}

\* featurePathLayer(feature, "a", pxPerExtent, style) returns
PathBuild ==
    /\ pathCall.phase = "args"
    /\ pathCall' = [pathCall EXCEPT
                       !.phase = "built",
                       !.layer = FeaturePathLayer(pathCall.feature, "a",
                                                  [x |-> 2, y |-> 2],
                                                  pathCall.style)]
    /\ UNCHANGED <<options, m_featureStyle, tiles, m_featureTiles, targets,
                   eventParents, returned, zoomCall, buildCall>>

\* featureLayer.setStyle(style) on the built layer
PathSetStyle(v) ==
    /\ pathCall.phase \in {"built", "restyled"}
    /\ pathCall' = [pathCall EXCEPT
                       !.phase = "restyled",
                       !.restyle = v,
                       !.layer = FeaturePathLayerSetStyle(pathCall.layer, v)]
    /\ UNCHANGED <<options, m_featureStyle, tiles, m_featureTiles, targets,
                   eventParents, returned, zoomCall, buildCall>>

NextPath == PathBuild \/ \E st \in PathStyles : PathSetStyle(Obj(st))

SpecPath == InitPath /\ [][NextPath]_vars

(***************************************************************************)
(* Properties.                                                             *)
(***************************************************************************)
Sessions == 1..Len(tiles)
Live(s) == s \in Registered(m_featureTiles)
Settled(s) == tiles[s].fetch # "pending"
Attached(ref) == ref \in targets /\ ref \in eventParents

\* the session registered for a coordinate (0 if there is none)
SessionAt(coords) ==
    IF RegistryIndex(m_featureTiles, tileId(coords)) = 0 THEN 0
    ELSE m_featureTiles[RegistryIndex(m_featureTiles, tileId(coords))].tile

\* C1: once a session was unloaded while its fetch was pending, the
\* completion of that fetch builds no feature graphics for it and registers
\* none of its feature graphics as an interactive target.
C1_LateCompletionIsNoOp ==
    [][\A s \in Sessions :
          (~Settled(s) /\ ~Live(s)) =>
              /\ tiles'[s].m_layers = tiles[s].m_layers
              /\ Members(tiles', s) \cap targets' = {}]_vars

\* C2: a feature graphics is attached (interactive target, layer as event
\* parent) if and only if its session is currently held in the registry.
C2_AttachedIffRegistered ==
    \A s \in Sessions : \A ref \in Members(tiles, s) :
        Attached(ref) <=> Live(s)

\* C3: once the fetch of a session has settled, done has been called
\* exactly once, with null when the load fulfilled and with the error when
\* it was rejected.
C3_DoneCalledOnce ==
    \A s \in Sessions :
        Settled(s) =>
            tiles[s].done =
                IF tiles[s].fetch = "rejected" THEN <<"error">>
                ELSE <<"null">>

\* C4: handling tileunload for a registered session detaches every member
\* of the session and deletes it from the registry; from then on no
\* eachFeatureLayer pass (setStyle, getBounds) visits its members, and no
\* call changes them.
C4_UnloadStep ==
    \A c \in Coords :
        TileUnload(c) =>
            /\ Members(tiles, SessionAt(c)) \cap targets' = {}
            /\ Members(tiles, SessionAt(c)) \cap eventParents' = {}
            /\ ~(SessionAt(c) \in Registered(m_featureTiles'))
C4_NotVisited ==
    \A s \in Sessions :
        (Settled(s) /\ ~Live(s)) =>
            /\ tiles'[s] = tiles[s]
            /\ \A k \in 1..Len(EachFeatureLayer(m_featureTiles, tiles)) :
                   EachFeatureLayer(m_featureTiles, tiles)[k].tile # s
\* C4: every tileunload step detaches all members of the unloaded session
\* and unregisters it, and an unloaded session is neither visited nor
\* changed afterwards.
C4_UnloadDetaches == [][C4_UnloadStep /\ C4_NotVisited]_vars

\* C4 witness: a session that was populated with members and then unloaded,
\* all of its members detached
C4_Witness ==
    \E s \in Sessions :
        /\ Settled(s) /\ ~Live(s)
        /\ tiles[s].done = <<"null">>
        /\ Members(tiles, s) # {}
        /\ \A ref \in Members(tiles, s) :
               ref \notin targets /\ ref \notin eventParents

\* what the style in force resolves to for a member of a session
Resolved(fl, coords) ==
    GetFeatureStyle(options, m_featureStyle, fl.feature, fl.layerName,
                    coords.z)

\* C5: after setStyle(S) returns, the style applied to every live feature
\* graphics is its class defaults overridden by what S resolves to for it
\* (no key keeps a value of the style the feature was built with).
C5_AppliedIsDefaultsPlusStyle ==
    \A s \in Sessions : \A i \in 1..Len(tiles[s].m_layers) :
        LET fl == tiles[s].m_layers[i]
        IN  (Live(s) /\ Truthy(Resolved(fl, tiles[s].coords))) =>
                fl.style =
                    Extend(ClassDefaults(fl.kind, fl.feature),
                           OwnStyle(Resolved(fl, tiles[s].coords)))
\* C5: every setStyle step ends with each live feature graphics styled by
\* its class defaults overridden by the resolved style.
C5_SetStyleReplacesStyle ==
    [][(\E st \in SetStyleInputs : SetStyle(st)) =>
           C5_AppliedIsDefaultsPlusStyle']_vars

C7_LiveFeaturesStyledFromOverride ==
    \A id \in FeatureIds :
        (/\ options.style = Legacy
         /\ options.getFeatureId
         /\ m_featureStyle[id].kind = "obj") =>
            \A s \in Sessions : \A i \in 1..Len(tiles[s].m_layers) :
                LET fl == tiles[s].m_layers[i]
                IN  (/\ Live(s)
                     /\ GetFeatureId(fl.feature) = id
                     /\ Truthy(Resolved(fl, tiles[s].coords))) =>
                        fl.style = Extend(ClassDefaults(fl.kind, fl.feature),
                                          m_featureStyle[id].obj)

\* the style option is the empty array, or a function returning it
ExplicitEmptyArray(o, feature, layerName, zoom) ==
    \/ o.style = Arr(<<>>)
    \/ /\ o.style.kind = "fn"
       /\ CallStyleFn(o.style.fn, feature, layerName, zoom) = Arr(<<>>)

\* the legacy resolver is in force and the layer style it starts from (the
\* vectorTileLayerStyles entry or the override) is the empty array, or a
\* function returning it
LegacyEmptyArray(o, fs, feature, layerName, zoom) ==
    /\ o.style = Legacy
    /\ LET src == LegacySource(o, fs, feature, layerName)
       IN  \/ src = Arr(<<>>)
           \/ /\ src.kind = "fn"
              /\ CallLayerStyleFn(src.fn, feature, zoom) = Arr(<<>>)

\* the members a fetch completion adds to session s in this step
NewMembers(s) ==
    {tiles'[s].m_layers[i] :
        i \in (Len(tiles[s].m_layers) + 1)..Len(tiles'[s].m_layers)}

C8_LegacySkips ==
    \A f \in AllFeatures, n \in LayerNames, z \in Zooms :
        LegacyEmptyArray(options, m_featureStyle, f, n, z) =>
            ~Truthy(GetFeatureStyle(options, m_featureStyle, f, n, z))
ContentItems(s) ==
    LET vt == TileContent(tiles[s].coords)
        ordered == GetOrderedLayers(options,
                                    [i \in 1..Len(vt) |-> vt[i].name],
                                    tiles[s].coords.z)
        items == TileItems(ordered, vt)
    IN  {[feature |-> items[i].feature, layerName |-> items[i].layerName] :
            i \in 1..Len(items)}

MemberItems(s) ==
    {[feature |-> tiles[s].m_layers[i].feature,
      layerName |-> tiles[s].m_layers[i].layerName] :
        i \in 1..Len(tiles[s].m_layers)}

Accepted(s, fl) ==
    \/ options.filter = "none"
    \/ CallFilter(options.filter, fl.feature, fl.layerName,
                  tiles[s].coords.z)

SetMin(S) == CHOOSE x \in S : \A y \in S : x <= y
SetMax(S) == CHOOSE x \in S : \A y \in S : y <= x

\* the union of the bounds of a set of feature layers
UnionBounds(refs) ==
    LET boxes == {TileBounds(tiles[r.tile].m_layers[r.idx],
                             tiles[r.tile].coords) : r \in refs}
    IN  IF refs = {} THEN NoBounds
        ELSE [defined |-> TRUE,
              s |-> SetMin({b.s : b \in boxes}),
              w |-> SetMin({b.w : b \in boxes}),
              n |-> SetMax({b.n : b \in boxes}),
              e |-> SetMax({b.e : b \in boxes})]

LiveRefs == UNION {Members(tiles, s) : s \in Registered(m_featureTiles)}

\* C9: a feature the filter rejects when its tile is built never becomes a
\* member of the session, so no eachFeatureLayer pass (setStyle, getBounds)
\* is handed it, and getBounds returns the union over accepted features
\* only.
C9_MembersAccepted ==
    \A s \in Sessions : \A i \in 1..Len(tiles[s].m_layers) :
        Accepted(s, tiles[s].m_layers[i])
\* C9: every member of every session is accepted by the filter, and every
\* getBounds step returns the union over accepted live members.
C9_FilteredNeverBuilt ==
    /\ []C9_MembersAccepted
    /\ [][GetBounds =>
             returned' =
                 UnionBounds({r \in LiveRefs :
                     Accepted(r.tile, tiles[r.tile].m_layers[r.idx])})]_vars

\* C9 witness: a filter is configured, a live populated session has members
\* and a feature of its tile that the filter rejects is not among them;
\* getBounds has returned bounds for it
C9_Witness ==
    /\ options.filter # "none"
    /\ returned.defined
    /\ \E s \in Sessions :
           /\ Live(s) /\ tiles[s].fetch = "buffer"
           /\ MemberItems(s) # {}
           /\ \E it \in ContentItems(s) :
                  /\ ~CallFilter(options.filter, it.feature, it.layerName,
                                 tiles[s].coords.z)
                  /\ it \notin MemberItems(s)

\* C10: with no filter configured and the style option left undefined,
\* every feature of every rendered layer of a populated tile has a feature
\* graphics, styled with its class defaults.
C10_DefaultStyleBuildsAll ==
    (options.filter = "none" /\ options.style = Undef) =>
        \A s \in Sessions :
            (tiles[s].fetch = "buffer" /\ tiles[s].done = <<"null">>) =>
                ContentItems(s) \subseteq MemberItems(s)

\* the layer was constructed with the configuration o: only setStyle
\* assigns to options afterwards, and only to options.style
ConstructedFrom(o) == [options EXCEPT !.style = o.style] = o

\* both the style option and vectorTileLayerStyles were given
BothGiven(o) == o.vectorTileLayerStyles.set /\ Truthy(o.style)

\* the options without any vectorTileLayerStyles entry, and no override
WithoutTable == [options EXCEPT !.vectorTileLayerStyles.table = NoTable]
NoOverrides == [i \in FeatureIds |-> Undef]

\* C11: on a layer constructed with both the style option and
\* vectorTileLayerStyles, the legacy resolver is never the style in force
\* and every feature graphics a fetch completion builds has the options the
\* style option alone resolves to, whatever the table and the override
\* table hold.
C11_StyleOptionOnly ==
    [][(\E o \in Configs : BothGiven(o) /\ ConstructedFrom(o)) =>
           /\ options.style.kind # "legacy"
           /\ \A s \in Sessions : \A fl \in NewMembers(s) :
                  fl.options =
                      Extend(ClassDefaults(fl.kind, fl.feature),
                             OwnStyle(GetFeatureStyle(WithoutTable,
                                 NoOverrides, fl.feature, fl.layerName,
                                 tiles[s].coords.z)))]_vars

\* C11 witness: on a layer constructed with both, a live member of layer a
\* was built red from the style option although the table's entry for a
\* asks for weight 5
C11_Witness ==
    /\ \E o \in Configs : BothGiven(o) /\ ConstructedFrom(o)
    /\ options.vectorTileLayerStyles.table["a"] = Obj(StyleW5)
    /\ \E s \in Sessions : \E i \in 1..Len(tiles[s].m_layers) :
           /\ Live(s)
           /\ tiles[s].m_layers[i].layerName = "a"
           /\ tiles[s].m_layers[i].options["color"] = "red"
           /\ tiles[s].m_layers[i].options["weight"] = "3"

Range(q) == {q[i] : i \in 1..Len(q)}

\* C12: when the layers allow-list is configured, no member of any session
\* belongs to a layer whose name is not in the list, with or without a
\* layerOrder function.
C12_OnlyAllowedLayersBuilt ==
    options.layers.set =>
        \A s \in Sessions : \A i \in 1..Len(tiles[s].m_layers) :
            tiles[s].m_layers[i].layerName \in Range(options.layers.names)

\* C12 witness: allow-list and layerOrder are both configured, a live
\* populated session has members, and its tile holds a layer with features
\* whose name is not in the list
C12_Witness ==
    /\ options.layers.set
    /\ options.layerOrder # "none"
    /\ \E s \in Sessions :
           /\ Live(s) /\ tiles[s].fetch = "buffer"
           /\ tiles[s].m_layers # <<>>
           /\ \E k \in 1..Len(TileContent(tiles[s].coords)) :
                  /\ TileContent(tiles[s].coords)[k].name
                         \notin Range(options.layers.names)
                  /\ TileContent(tiles[s].coords)[k].features # <<>>

\* the position of the first occurrence of n in q (past the end if none)
Pos(q, n) ==
    IF n \in Range(q) THEN CHOOSE i \in 1..Len(q) :
                               q[i] = n /\ \A j \in 1..(i - 1) : q[j] # n
    ELSE Len(q) + 1

\* the members of session s were built layer by layer in the order of q
BuiltInOrderOf(s, q) ==
    \A i \in 1..Len(tiles[s].m_layers) : \A j \in i..Len(tiles[s].m_layers) :
        /\ tiles[s].m_layers[i].layerName \in Range(q)
        /\ Pos(q, tiles[s].m_layers[i].layerName)
               <= Pos(q, tiles[s].m_layers[j].layerName)

\* the layer names of the tile of session s in decode order
DecodeNames(s) ==
    [k \in 1..Len(TileContent(tiles[s].coords)) |->
        TileContent(tiles[s].coords)[k].name]

\* the parts of C13 about a layer without an allow-list: with only
\* layerOrder the build order is the one it returns for the decoded names,
\* and with neither it is the decode order
C13_WithoutAllowList(s) ==
    /\ (~options.layers.set /\ options.layerOrder # "none") =>
           BuiltInOrderOf(s, CallLayerOrder(options.layerOrder,
                                            DecodeNames(s),
                                            tiles[s].coords.z))
    /\ (~options.layers.set /\ options.layerOrder = "none") =>
           BuiltInOrderOf(s, DecodeNames(s))

\* C13 as stated: with both the allow-list and layerOrder configured the
\* members of every session are built in the order of the allow-list; with
\* only layerOrder in the order it returns; with neither in decode order.
C13_AllowListOrderWins ==
    \A s \in Sessions :
        /\ options.layers.set => BuiltInOrderOf(s, options.layers.names)
        /\ C13_WithoutAllowList(s)

\* C13 amended: with both configured the members are built in the order
\* layerOrder returns for the allow-list; with only the allow-list in the
\* order of the allow-list; with only layerOrder in the order it returns
\* for the decoded names; with neither in decode order.
C13_LayerOrderAppliedToAllowList ==
    \A s \in Sessions :
        /\ (options.layers.set /\ options.layerOrder # "none") =>
               BuiltInOrderOf(s, CallLayerOrder(options.layerOrder,
                                                options.layers.names,
                                                tiles[s].coords.z))
        /\ (options.layers.set /\ options.layerOrder = "none") =>
               BuiltInOrderOf(s, options.layers.names)
        /\ C13_WithoutAllowList(s)

\* C13 witness: with both configured, a session holds members of two
\* layers, built in the order layerOrder returned and not in the order of
\* the allow-list
C13_Witness ==
    /\ options.layers.set
    /\ options.layerOrder # "none"
    /\ \E s \in Sessions :
           /\ Live(s)
           /\ \E i, j \in 1..Len(tiles[s].m_layers) :
                  /\ i < j
                  /\ Pos(options.layers.names, tiles[s].m_layers[j].layerName)
                         < Pos(options.layers.names,
                               tiles[s].m_layers[i].layerName)

\* the bounds of one member, by its reference
RefBounds(r) ==
    TileBounds(tiles[r.tile].m_layers[r.idx], tiles[r.tile].coords)

\* C14: every getBounds call returns undefined when no registered session
\* has a member, and otherwise the union of the unprojected global bbox of
\* every member of every registered session; that is the bbox of the one
\* member when there is exactly one, and visiting sessions and members in
\* the opposite order gives the same result.
C14_GetBoundsIsUnion ==
    [][GetBounds =>
           /\ (LiveRefs = {}) <=> ~returned'.defined
           /\ returned' = UnionBounds(LiveRefs)
           /\ \A r \in LiveRefs : LiveRefs = {r} => returned' = RefBounds(r)
           /\ returned' =
                  FoldBounds(NoBounds,
                             Reverse(EachFeatureLayer(m_featureTiles, tiles)),
                             tiles)]_vars

\* C14 witness: getBounds has returned bounds over two registered sessions
\* with members that are the bounds of no single member
C14_Witness ==
    /\ returned.defined
    /\ returned = UnionBounds(LiveRefs)
    /\ \A r \in LiveRefs : returned # RefBounds(r)
    /\ \E s, t \in Registered(m_featureTiles) :
           s # t /\ tiles[s].m_layers # <<>> /\ tiles[t].m_layers # <<>>

\* C15 as stated: a fetch that ends with a non-success HTTP status (404 or
\* 500) leaves the session populated with no feature graphics and done
\* called once without an error.
C15_NonSuccessIsEmptyTile ==
    [][\A s \in Sessions : \A r \in {"status404", "status500"} :
          (FetchFulfilled(s, r) \/ FetchRejected(s, r)) =>
              /\ tiles'[s].m_layers = <<>>
              /\ tiles'[s].done = <<"null">>]_vars

\* C15 amended: load turns status 404 into an undefined buffer and every
\* other non-success status, like a failed fetch, into a rejection; a
\* session whose load delivered undefined has no feature graphics and had
\* done called once without an error, and a session whose load was rejected
\* has no feature graphics and had done called once with the error.
C15_Only404IsEmptyTile ==
    /\ Load("status404") = "undefined"
    /\ Load("status500") = "rejected"
    /\ Load("networkError") = "rejected"
    /\ \A s \in Sessions :
           /\ tiles[s].fetch = "undefined" =>
                  tiles[s].m_layers = <<>> /\ tiles[s].done = <<"null">>
           /\ tiles[s].fetch = "rejected" =>
                  tiles[s].m_layers = <<>> /\ tiles[s].done = <<"error">>

\* C15 witness: under a style that builds features, the fetch of one
\* session ended with status 404 and left it populated, empty and without
\* error, while the fetch of another was rejected and reported
C15_Witness ==
    /\ options.style.kind = "obj"
    /\ \E s, t \in Sessions :
           /\ Live(s)
           /\ tiles[s].fetch = "undefined"
           /\ tiles[s].m_layers = <<>>
           /\ tiles[s].done = <<"null">>
           /\ tiles[t].fetch = "rejected"
           /\ tiles[t].done = <<"error">>

\* C16: when the fetch of a session delivers a tile, a feature of
\* unrecognized geometry type costs that feature only: every feature of a
\* recognized type that resolves to a style is a member of the session (and
\* attached) after the completion, and done has been called, so that the
\* host learns of the outcome.
C16_UnknownTypeConfined ==
    [][\A s \in Sessions :
          (tiles[s].fetch = "pending" /\ tiles'[s].fetch = "buffer") =>
              /\ \A it \in ContentItems(s) :
                     (/\ TypeName(it.feature.type) # "Unknown"
                      /\ Truthy(GetFeatureStyle(options, m_featureStyle,
                                    it.feature, it.layerName,
                                    tiles[s].coords.z))) =>
                         \E i \in 1..Len(tiles'[s].m_layers) :
                             /\ tiles'[s].m_layers[i].feature = it.feature
                             /\ tiles'[s].m_layers[i].layerName = it.layerName
                             /\ Ref(s, i) \in targets'
              /\ tiles'[s].done # <<>>]_vars

\* C17: for every Point, LineString or Polygon feature and every style
\* object, whichever optional keys it gives or omits, the default builder
\* returns a feature graphics and does not raise; a Point whose style has no
\* icon is built as a circle styled by the circle defaults overridden by
\* the style.
C17_BuilderNeverRaises ==
    /\ buildCall.phase # "raised"
    /\ (/\ buildCall.phase = "returned"
        /\ TypeName(buildCall.feature.type) = "Point"
        /\ buildCall.style.obj["icon"] = Absent) =>
           /\ buildCall.layer.kind = "circle"
           /\ buildCall.layer.style =
                  Extend(CircleMarkerOptions, buildCall.style.obj)

\* clampZoom is idempotent on the call under way and monotonic from its
\* argument upwards
ClampIdempotentMonotonic ==
    /\ zoomCall.phase = "again" => zoomCall.again = zoomCall.out
    /\ zoomCall.phase \in {"returned", "again"} =>
           \A z2 \in ZoomArgs :
               zoomCall.zoom <= z2 =>
                   zoomCall.out <= ClampZoom(zoomCall, z2)

\* the configured detail zooms form a range: when both are configured,
\* minDetailZoom <= maxDetailZoom
DetailRange ==
    (zoomCall.minDetailZoom.set /\ zoomCall.maxDetailZoom.set) =>
        zoomCall.minDetailZoom.value <= zoomCall.maxDetailZoom.value

\* C18 as stated: for every zoom and every pair of bounds, each undefined
\* or an integer, clampZoom(clampZoom(z)) = clampZoom(z), and z <= z2
\* implies clampZoom(z) <= clampZoom(z2).
C18_ClampAnyBounds == ClampIdempotentMonotonic

\* C18 amended: clampZoom is idempotent and monotonic for every zoom and
\* every pair of bounds, each undefined or an integer, with
\* minDetailZoom <= maxDetailZoom when both are configured.
C18_ClampOrderedBounds == DetailRange => ClampIdempotentMonotonic

\* C18 witness: with minDetailZoom < maxDetailZoom a zoom above the range
\* was clamped to maxDetailZoom, and clamping the result again returned it
C18_Witness ==
    /\ zoomCall.phase = "again"
    /\ zoomCall.minDetailZoom.set /\ zoomCall.maxDetailZoom.set
    /\ zoomCall.minDetailZoom.value < zoomCall.maxDetailZoom.value
    /\ zoomCall.maxDetailZoom.value < zoomCall.zoom
    /\ zoomCall.out = zoomCall.maxDetailZoom.value
    /\ zoomCall.again = zoomCall.out

\* what C19 says clampZoom returns for the call under way
ClampReturnsByCase ==
    zoomCall.phase \in {"returned", "again"} =>
        /\ (~zoomCall.minDetailZoom.set /\ ~zoomCall.maxDetailZoom.set) =>
               zoomCall.out = zoomCall.zoom
        /\ (/\ zoomCall.minDetailZoom.set =>
                   zoomCall.minDetailZoom.value <= zoomCall.zoom
            /\ zoomCall.maxDetailZoom.set =>
                   zoomCall.zoom <= zoomCall.maxDetailZoom.value) =>
               zoomCall.out = zoomCall.zoom
        /\ (/\ zoomCall.minDetailZoom.set
            /\ zoomCall.zoom < zoomCall.minDetailZoom.value) =>
               zoomCall.out = zoomCall.minDetailZoom.value
        /\ (/\ zoomCall.maxDetailZoom.set
            /\ zoomCall.zoom > zoomCall.maxDetailZoom.value) =>
               zoomCall.out = zoomCall.maxDetailZoom.value

\* C19 as stated: for every integer zoom and every configuration of the
\* bounds clampZoom returns the zoom when no bound is configured or the
\* zoom is within the configured bounds, minDetailZoom when the zoom is
\* below it and maxDetailZoom when the zoom is above it.
C19_ClampByCaseAnyBounds == ClampReturnsByCase

\* C19 amended: the same, for bounds with minDetailZoom <= maxDetailZoom
\* when both are configured.
C19_ClampByCaseOrderedBounds == DetailRange => ClampReturnsByCase

\* C19 witness: with minDetailZoom < maxDetailZoom a zoom below the range
\* was clamped to minDetailZoom
C19_Witness ==
    /\ zoomCall.phase = "returned"
    /\ zoomCall.minDetailZoom.set /\ zoomCall.maxDetailZoom.set
    /\ zoomCall.minDetailZoom.value < zoomCall.maxDetailZoom.value
    /\ zoomCall.zoom < zoomCall.minDetailZoom.value
    /\ zoomCall.out = zoomCall.minDetailZoom.value

\* a step of setStyle, setFeatureStyle or resetFeatureStyle
StyleCall ==
    \/ \E st \in SetStyleInputs : SetStyle(st)
    \/ \E i \in OverrideIds, st \in OverrideInputs : SetFeatureStyle(i, st)
    \/ \E i \in OverrideIds : ResetFeatureStyle(i)

\* C20: a setStyle, setFeatureStyle or resetFeatureStyle call leaves the
\* registry, the interactive targets and event parents, the number of
\* sessions and every session's coordinate, fetch state and done calls as
\* they were, and changes nothing of any member but its applied style: no
\* member is added, removed, reordered or built anew.
C20_StyleCallsKeepStructure ==
    [][StyleCall =>
           /\ m_featureTiles' = m_featureTiles
           /\ targets' = targets
           /\ eventParents' = eventParents
           /\ Len(tiles') = Len(tiles)
           /\ \A s \in Sessions :
                  /\ tiles'[s].coords = tiles[s].coords
                  /\ tiles'[s].fetch = tiles[s].fetch
                  /\ tiles'[s].done = tiles[s].done
                  /\ Len(tiles'[s].m_layers) = Len(tiles[s].m_layers)
                  /\ \A i \in 1..Len(tiles[s].m_layers) :
                         [tiles'[s].m_layers[i] EXCEPT
                             !.style = tiles[s].m_layers[i].style]
                             = tiles[s].m_layers[i]]_vars

\* C20 witness: after setStyle a live attached member carries the new
\* weight on the graphics it was built with, while the fetch of another
\* session is still pending
C20_Witness ==
    /\ options.style = Obj(StyleW5)
    /\ \E s, t \in Sessions : \E i \in 1..Len(tiles[s].m_layers) :
           /\ Live(s)
           /\ Attached(Ref(s, i))
           /\ tiles[s].m_layers[i].options["weight"] = "3"
           /\ tiles[s].m_layers[i].style["weight"] = "5"
           /\ Live(t)
           /\ tiles[t].fetch = "pending"

\* the keys of a style that set how a path is stroked
StrokeKeys == {"color", "weight", "opacity"}

C22_RestyleReachesInteractionPath ==
    (pathCall.phase = "restyled" /\ pathCall.layer.root = "g") =>
        /\ pathCall.layer.visiblePath.style =
               Extend(pathCall.layer.options, pathCall.restyle.obj)
        /\ pathCall.layer.interactionPath.style["weight"] =
               (IF pathCall.restyle.obj["interactionWeight"] # Absent
                THEN pathCall.restyle.obj["interactionWeight"] ELSE "10")
        /\ pathCall.layer.interactionPath.style["opacity"] \in {"0.0", "0.20"}

\* the index of a feature in the layer named n of the tile at coords (0 if
\* the tile has no such feature)
FeatureIndex(coords, n, feature) ==
    LET found == SelectSeq(TileContent(coords), LAMBDA l : l.name = n)
    IN  IF found = <<>> \/ feature \notin Range(found[1].features) THEN 0
        ELSE Pos(found[1].features, feature)

\* the layer names getOrderedLayers resolves for the tile of session s
ResolvedOrder(s) ==
    GetOrderedLayers(options, DecodeNames(s), tiles[s].coords.z)

\* the (feature, layerName) pairs of the tile of session s whose layer is
\* in the resolved order and which resolve to a style
AcceptedItems(s) ==
    {it \in [feature : AllFeatures, layerName : LayerNames] :
             /\ \E k \in 1..Len(TileContent(tiles[s].coords)) :
                    /\ TileContent(tiles[s].coords)[k].name = it.layerName
                    /\ it.feature \in
                           Range(TileContent(tiles[s].coords)[k].features)
             /\ it.layerName \in Range(ResolvedOrder(s))
             /\ Truthy(GetFeatureStyle(options, m_featureStyle, it.feature,
                                       it.layerName, tiles[s].coords.z))}

\* the (feature, layerName) pairs of a sequence of feature layers
ItemsOf(q) ==
    [i \in 1..Len(q) |-> [feature |-> q[i].feature,
                          layerName |-> q[i].layerName]]

\* C23: when the fetch of a session delivers the tile and the session
\* becomes populated (done is called), the session's members are exactly
\* the accepted features, each once, grouped by layer in the resolved layer
\* order and within a layer in ascending feature index; names of the
\* resolved order the tile has no layer for contribute nothing; and no
\* later step populates the session again (its member sequence lists the
\* same features for as long as the session exists).
C23_PopulatedInResolvedOrder ==
    [][\A s \in Sessions :
          /\ (/\ tiles[s].fetch = "pending"
              /\ tiles'[s].fetch = "buffer"
              /\ tiles'[s].done # tiles[s].done) =>
                 LET q == tiles'[s].m_layers
                 IN  /\ Range(ItemsOf(q)) = AcceptedItems(s)
                     /\ Len(q) = Cardinality(AcceptedItems(s))
                     /\ \A i \in 1..Len(q) : \A j \in (i + 1)..Len(q) :
                            \/ Pos(ResolvedOrder(s), q[i].layerName)
                                   < Pos(ResolvedOrder(s), q[j].layerName)
                            \/ /\ q[i].layerName = q[j].layerName
                               /\ FeatureIndex(tiles[s].coords,
                                      q[i].layerName, q[i].feature)
                                      < FeatureIndex(tiles[s].coords,
                                            q[j].layerName, q[j].feature)
          /\ tiles[s].fetch # "pending" =>
                 ItemsOf(tiles'[s].m_layers) = ItemsOf(tiles[s].m_layers)]_vars

\* C23 witness: a populated session whose four members come from three
\* layers in an order that is not the decode order, the two features of
\* one layer in index order
C23_Witness ==
    \E s \in Sessions :
        /\ tiles[s].fetch = "buffer"
        /\ tiles[s].done = <<"null">>
        /\ Len(tiles[s].m_layers) = 4
        /\ tiles[s].m_layers[1].layerName = "c"
        /\ tiles[s].m_layers[3].layerName = "a"
        /\ tiles[s].m_layers[4].layerName = "a"

\* this step is the completion of the fetch of session s
Completes(s) == tiles[s].fetch = "pending" /\ tiles'[s].fetch # "pending"

\* what the completion of the fetch of a session with the given response
\* would make of the session's members, under options o and overrides fs
Outcome(tile, response, o, fs) ==
    AddVectorTile(tile, Decode(tile.coords, Load(response)), o, fs)

\* C24: the completion of the fetch of one session adds members to that
\* session only, and only features of that session's tile: every other
\* session (members, applied styles, fetch state) is unchanged, the
\* registry, the layer's style and the override table
\* are unchanged, only feature graphics of the completing session are
\* attached, and what the completion of any other pending session will
\* build is the same after the step as before it, so that completions
\* commute.
C24_CompletionsIndependent ==
    [][\A s \in Sessions :
          Completes(s) =>
              /\ \A fl \in NewMembers(s) :
                     \E k \in 1..Len(TileContent(tiles[s].coords)) :
                         /\ TileContent(tiles[s].coords)[k].name
                                = fl.layerName
                         /\ fl.feature \in
                                Range(TileContent(tiles[s].coords)[k].features)
              /\ \A t \in Sessions \ {s} :
                     /\ tiles'[t] = tiles[t]
                     /\ tiles[t].fetch = "pending" =>
                            \A r \in Responses :
                                Outcome(tiles'[t], r, options',
                                        m_featureStyle')
                                    = Outcome(tiles[t], r, options,
                                              m_featureStyle)
              /\ m_featureTiles' = m_featureTiles
              /\ options' = options
              /\ m_featureStyle' = m_featureStyle
              /\ \A ref \in (targets' \ targets)
                             \cup (eventParents' \ eventParents) :
                     ref.tile = s
              /\ targets \subseteq targets'
              /\ eventParents \subseteq eventParents']_vars

\* C24 witness: two registered sessions were pending together and the one
\* created later completed first and has members, the other is pending
C24_Witness ==
    /\ Len(tiles) = 2
    /\ Live(1) /\ Live(2)
    /\ tiles[1].fetch = "pending"
    /\ tiles[2].fetch = "buffer"
    /\ tiles[2].m_layers # <<>>
    /\ \E i \in 1..Len(tiles[2].m_layers) : Ref(2, i) \in targets

C26_SetResetRoundTrip ==
    [][\A id \in OverrideIds :
          (/\ ResetFeatureStyle(id)
           /\ m_featureStyle[id] # Undef
           /\ options.style.kind = "legacy") =>
              /\ m_featureStyle'[id] = Undef
              /\ \A s \in Sessions : \A i \in 1..Len(tiles[s].m_layers) :
                     LET fl == tiles'[s].m_layers[i]
                         v == GetFeatureStyle(options', m_featureStyle',
                                  fl.feature, fl.layerName, tiles[s].coords.z)
                     IN  (/\ Live(s)
                          /\ GetFeatureId(fl.feature) = id
                          /\ Truthy(v)) =>
                             fl.style = Extend(ClassDefaults(fl.kind,
                                                             fl.feature),
                                               OwnStyle(v))]_vars

\* C27: on a layer configured with vectorTileLayerStyles and getFeatureId,
\* overrides survive restyling: after every setStyle(S) call, and after
\* every setFeatureStyle call made later, each live feature whose id has an
\* override B registered is styled from B (every key B gives is the key's
\* value in the applied style).
C27_OverridesSurviveRestyle ==
    [][(/\ options.vectorTileLayerStyles.set
        /\ options.getFeatureId
        /\ \/ \E st \in RestyleInputs : SetStyle(st)
           \/ \E j \in RestyleIds, st \in RestyleOverrides :
                  SetFeatureStyle(j, st)) =>
           \A s \in Sessions : \A i \in 1..Len(tiles'[s].m_layers) :
               LET fl == tiles'[s].m_layers[i]
                   B == m_featureStyle'[GetFeatureId(fl.feature)]
               IN  (Live(s) /\ B # Undef) =>
                       \A k \in Keys :
                           B.obj[k] # Absent => fl.style[k] = B.obj[k]]_vars

\* C28: a fetch completion builds the features of its tile with the style
\* and the overrides in force at the completion, whatever was in force when
\* createTile was called; and after every step each live feature is styled
\* as the most recent style call resolves for it: its build options
\* overridden by what the style now in force resolves to.
C28_BuiltWithStyleAtCompletion ==
    [][/\ \A s \in Sessions : \A fl \in NewMembers(s) :
              LET v == GetFeatureStyle(options, m_featureStyle, fl.feature,
                                       fl.layerName, tiles[s].coords.z)
              IN  /\ Truthy(v)
                  /\ fl.options = Extend(ClassDefaults(fl.kind, fl.feature),
                                         OwnStyle(v))
                  /\ fl.style = fl.options
       /\ \A s \in 1..Len(tiles') : \A i \in 1..Len(tiles'[s].m_layers) :
              LET fl == tiles'[s].m_layers[i]
              IN  s \in Registered(m_featureTiles') =>
                      fl.style =
                          Extend(fl.options,
                                 OwnStyle(GetFeatureStyle(options',
                                     m_featureStyle', fl.feature,
                                     fl.layerName, tiles'[s].coords.z)))]_vars

\* C28 witness: the second session was populated under the style the layer
\* was constructed with (its members were built with the default weight and
\* restyled since), so both sessions were created before setStyle; the
\* first session was populated after setStyle and its members were built
\* with the weight of the new style
C28_Witness ==
    /\ Len(tiles) = 2
    /\ Live(1) /\ Live(2)
    /\ options.style = Obj(StyleW5)
    /\ tiles[1].fetch = "buffer" /\ tiles[2].fetch = "buffer"
    /\ tiles[1].m_layers # <<>> /\ tiles[2].m_layers # <<>>
    /\ \A i \in 1..Len(tiles[2].m_layers) :
           /\ tiles[2].m_layers[i].options["weight"] = "3"
           /\ tiles[2].m_layers[i].style["weight"] = "5"
    /\ \A i \in 1..Len(tiles[1].m_layers) :
           tiles[1].m_layers[i].options["weight"] = "5"

\* C29: within one session every decoded feature of the tile has at most
\* one feature graphics: no two members of a session are built for the same
\* feature of the same layer, whatever list of names options.layers or
\* layerOrder yields.
C29_NoFeatureBuiltTwice ==
    \A s \in Sessions :
        \A i \in 1..Len(tiles[s].m_layers) :
            \A j \in 1..Len(tiles[s].m_layers) :
                (/\ tiles[s].m_layers[i].feature = tiles[s].m_layers[j].feature
                 /\ tiles[s].m_layers[i].layerName
                        = tiles[s].m_layers[j].layerName) => i = j

\* C30: with zoomReverse false, for every display zoom z and all of
\* zoomOffset, minDetailZoom and maxDetailZoom, the zoom of the tile URL and
\* the zoom the tile size is scaled for are clamped alike:
\* getZoomForUrl(z) - (z + zoomOffset) = clampZoom(z) - z, and the tile
\* size is the base size scaled for the data zoom the URL asks for.
C30_UrlAndGridClampedAlike ==
    (zoomCall.phase = "sized" /\ ~zoomCall.zoomReverse) =>
        /\ zoomCall.url - (zoomCall.zoom + zoomCall.zoomOffset)
               = ClampZoom(zoomCall, zoomCall.zoom) - zoomCall.zoom
        /\ zoomCall.size =
               DivideByZoomScale(BaseTileSize, zoomCall.url,
                                 zoomCall.zoom + zoomCall.zoomOffset)

====
